---- MODULE Spec2Model ----
(***************************************************************************)
(* VeloceDB: the save scheduler of the Veloce class, in the three          *)
(* generations of the class that the repository holds:                     *)
(*   "ts"    src/src/index.ts      (sync and async saves, try/finally)     *)
(*   "queue" src/unnamed/part_005  (saves chained on _saveQueue, close())  *)
(*   "js"    src/index.js          (synchronous saves only)                *)
(* One Store is modelled.  The root value is abstracted to the number of   *)
(* mutations applied to it; a physical write is the interval between the   *)
(* call of fs.promises.writeFile and its completion (a synchronous         *)
(* writeFileSync begins and completes inside one step).                    *)
(***************************************************************************)
EXTENDS Naturals, Sequences, FiniteSets

\* ---------------------------------------------------------------- bounds
MaxMutations == 2
MaxOps == 2
MaxTimers == 2
MaxQueue == 1
MaxWrites == 2
\* the configured maxAutoSaveTimeouts / maximumAutoSaveTimeouts
MaxAutoSaveTimeouts == 3

MaxProxies == 2

VARIABLES
  variant,                 \* which generation of the class this Store is
  config,                  \* [autoSave, sync, throwErrors, noProxy]
  data,                    \* this.data: the root, as its mutation count
  file,                    \* content of the backing file, or Absent
  isInitialCheckComplete,  \* this.isInitialCheckComplete / initialCheckIsDone
  isSaving,                \* this.isSaving / this.saving
  saveTimeout,             \* this.saveTimeout: "undefined", "armed" or "stale"
  saveTimeoutFn,           \* callback of the armed debounce timer
  saveTimeoutCount,        \* this.saveTimeoutCount / saveTimeoutsCount
  orphanTimers,            \* live debounce timers no field refers to any more
  retryTimers,             \* live retry timers, per callback kind
  ops,                     \* async performSave invocations that are suspended
  saveQueue,               \* callbacks chained on this._saveQueue, not yet run
  queueRejected,           \* this._saveQueue is a rejected promise
  isClosed,                \* this._isClosed
  writeCount,              \* physical writes begun so far
  failed,                  \* some physical write has failed
  request,                 \* a save was requested after a failure, no write begun since
  timerFired,              \* some debounce timer has fired
  opened,                  \* the constructor: "new" (not run), "ok" or "threw"
  baseData,                \* the constructor's baseData argument <<d>>, or NoData
  wrapped,                 \* this.data is a Proxy made by the interception layer
  nested,                  \* kind of the container at store.data.a
  lastUpdate,              \* onUpdate call of the latest operation on store.data
  proxies,                 \* wrappers made so far for the nested container
  cached,                  \* _proxyCache holds the nested container's wrapper
  lastRead,                \* latest read of store.data.a: NoData, Plain or a wrapper <<n, hit>>
  closePending,            \* a close() call is awaiting this._saveQueue
  closeResolved,           \* a promise returned by close() has been fulfilled
  events,                  \* what the traps of the latest operation on store.data did, in order
  raised,                  \* the latest call of the caller ended with an error raised to it
  lastCall                 \* the latest method the caller called on the Store

vars == <<variant, config, data, file, isInitialCheckComplete, isSaving,
          saveTimeout, saveTimeoutFn, saveTimeoutCount, orphanTimers,
          retryTimers, ops, saveQueue, queueRejected, isClosed, writeCount,
          failed, request, timerFired, opened, baseData, wrapped,
          nested, lastUpdate, proxies, cached, lastRead, closePending,
          closeResolved, events, raised, lastCall>>

Variants == {"ts", "queue", "js"}

\* The two generations of src/unnamed/part_000 besides: "v0" (no
\* interception layer) and "v1" (a Proxy on the root only, immediate saves).
Generations == Variants \cup {"v0", "v1"}

\* No value: no baseData given, nothing read yet.
NoData == <<>>
FnKinds == {"sync", "async"}
Outcomes == {"ok", "mkdirFail", "writeFail"}

\* The Store as one record, so that a handler is a function of the Store.
This ==
  [data |-> data, file |-> file,
   isInitialCheckComplete |-> isInitialCheckComplete, isSaving |-> isSaving,
   saveTimeout |-> saveTimeout, saveTimeoutFn |-> saveTimeoutFn,
   saveTimeoutCount |-> saveTimeoutCount, orphanTimers |-> orphanTimers,
   retryTimers |-> retryTimers, ops |-> ops, saveQueue |-> saveQueue,
   queueRejected |-> queueRejected, isClosed |-> isClosed,
   writeCount |-> writeCount, failed |-> failed, request |-> request,
   timerFired |-> timerFired, opened |-> opened, baseData |-> baseData,
   wrapped |-> wrapped, nested |-> nested, lastUpdate |-> lastUpdate, proxies |-> proxies,
   cached |-> cached, lastRead |-> lastRead, closePending |-> closePending,
   closeResolved |-> closeResolved, events |-> events, raised |-> raised,
   lastCall |-> lastCall,
   hook |-> "quiet", threw |-> FALSE]

RemoveAt(seq, i) == SubSeq(seq, 1, i - 1) \o SubSeq(seq, i + 1, Len(seq))

NumTimers(s) ==
  s.retryTimers["sync"] + s.retryTimers["async"] + s.orphanTimers
  + (IF s.saveTimeout = "armed" THEN 1 ELSE 0)

WithinBounds(s) ==
  /\ Len(s.ops) <= MaxOps
  /\ Len(s.saveQueue) <= MaxQueue
  /\ NumTimers(s) <= MaxTimers
  /\ s.writeCount <= MaxWrites
  /\ s.saveTimeoutCount <= MaxAutoSaveTimeouts + 1
  /\ s.proxies <= MaxProxies

Commit(s) ==
  /\ WithinBounds(s)
  /\ data' = s.data
  /\ file' = s.file
  /\ isInitialCheckComplete' = s.isInitialCheckComplete
  /\ isSaving' = s.isSaving
  /\ saveTimeout' = s.saveTimeout
  /\ saveTimeoutFn' = (IF s.saveTimeout = "armed" THEN s.saveTimeoutFn ELSE "sync")
  /\ saveTimeoutCount' = s.saveTimeoutCount
  /\ orphanTimers' = s.orphanTimers
  /\ retryTimers' = s.retryTimers
  /\ ops' = s.ops
  /\ saveQueue' = s.saveQueue
  /\ queueRejected' = s.queueRejected
  /\ isClosed' = s.isClosed
  /\ writeCount' = s.writeCount
  /\ failed' = s.failed
  /\ request' = s.request
  /\ timerFired' = s.timerFired
  /\ opened' = s.opened
  /\ baseData' = s.baseData
  /\ wrapped' = s.wrapped
  /\ nested' = s.nested
  /\ lastUpdate' = s.lastUpdate
  /\ proxies' = s.proxies
  /\ cached' = s.cached
  /\ lastRead' = s.lastRead
  /\ closePending' = s.closePending
  /\ closeResolved' = s.closeResolved
  /\ events' = s.events
  /\ raised' = s.raised
  /\ lastCall' = s.lastCall
  /\ UNCHANGED <<variant, config>>

\* ------------------------------------------------------------ the codec
\* The backing file does not exist.
Absent == <<>>

\* stringify(this.data, null, indentation): the text of the root.
stringify(d) == <<"json", d>>

\* sjson.parse / JSON.parse of a text written by stringify.
parse(text) == text[2]

\* ------------------------------------------------------------ timers
\* clearTimeout(this.saveTimeout): the timer the field refers to can no
\* longer fire; the field keeps the (now dead) handle.
clearTimeout(s) ==
  IF s.saveTimeout = "armed" THEN [s EXCEPT !.saveTimeout = "stale"] ELSE s

\* this.saveTimeout = setTimeout(callback, autoSaveDelayMs)
\* A timer the field still referred to is not cleared by the assignment.
armSaveTimeout(s, fn) ==
  [s EXCEPT !.saveTimeout = "armed", !.saveTimeoutFn = fn,
            !.orphanTimers = IF s.saveTimeout = "armed" THEN @ + 1 ELSE @]

\* setTimeout(callback, saveRetryTimeoutMs)
armRetry(s, fn) == [s EXCEPT !.retryTimers[fn] = @ + 1]

\* Observation: a save closure is entered / a physical write begins / a
\* physical write ends with an outcome.
noteAttempt(s) == [s EXCEPT !.request = FALSE]

noteBegin(s) == [s EXCEPT !.writeCount = @ + 1]

noteEnd(s, ok) == [s EXCEPT !.failed = @ \/ ~ok]

\* ======================================================= src/src/index.ts
\* cleanupSaveState()
cleanupSaveState(s) ==
  [clearTimeout(s) EXCEPT !.isSaving = FALSE, !.saveTimeout = "undefined",
                          !.saveTimeoutCount = 0]

\* A performSave closure that schedules a retry when the write fails.
performSaveSync_retrying(s0, out) ==
  LET s  == noteAttempt(s0)
      mk == (~s.isInitialCheckComplete) /\ out = "mkdirFail"
      s1 == IF mk THEN s
            ELSE [s EXCEPT !.isInitialCheckComplete = TRUE, !.isSaving = TRUE]
      s2 == IF mk THEN s1
            ELSE IF out = "writeFail"
            THEN armRetry(noteEnd(noteBegin(s1), FALSE), "sync")
            ELSE noteEnd(noteBegin([s1 EXCEPT !.file = stringify(s1.data)]),
                         TRUE)
      err == mk \/ out = "writeFail"
  IN  [cleanupSaveState(s2) EXCEPT !.threw = err /\ config.throwErrors]

\* A performSave closure whose first run makes the directory and writes
\* nothing.
performSaveSync_dirOnly(s0, out) ==
  LET s  == noteAttempt(s0)
      s1 == [s EXCEPT !.isInitialCheckComplete = TRUE, !.isSaving = TRUE]
      s2 == IF ~s.isInitialCheckComplete THEN s1
            ELSE noteEnd(noteBegin([s1 EXCEPT !.file = stringify(s1.data)]),
                         TRUE)
  IN  cleanupSaveState(s2)

\* save(force): the synchronous performSave closure.  `out` is what the
\* filesystem does: the directory creation or the write may fail.
performSaveSync(s0, out) ==
  LET s  == noteAttempt(s0)
      mk == (~s.isInitialCheckComplete) /\ out = "mkdirFail"
      s1 == IF mk THEN s
            ELSE [s EXCEPT !.isInitialCheckComplete = TRUE, !.isSaving = TRUE]
      s2 == IF mk THEN s1
            ELSE IF out = "writeFail" THEN noteEnd(noteBegin(s1), FALSE)
            ELSE noteEnd(noteBegin([s1 EXCEPT !.file = stringify(s1.data)]),
                         TRUE)
      err == mk \/ out = "writeFail"
  IN  [cleanupSaveState(s2) EXCEPT !.threw = err /\ config.throwErrors]

\* saveAsync(force): the asynchronous performSave closure, up to its first
\* await.  With the directory check still to do it suspends in
\* fs.promises.access before isSaving is set; otherwise it sets isSaving,
\* serializes the root and suspends in fs.promises.writeFile.
performSaveAsync(s0, p) ==
  LET s == noteAttempt(s0)
  IN  IF ~s.isInitialCheckComplete
      THEN [s EXCEPT !.ops = Append(@, [pc |-> "check",
                                         content |-> stringify(0), p |-> p])]
      ELSE noteBegin([s EXCEPT !.isSaving = TRUE,
                               !.ops = Append(@, [pc |-> "write",
                                                  content |-> stringify(s.data),
                                                  p |-> p])])

\* saveFn(): one of the two closures.
saveFn(s, fn, out, p) ==
  IF fn = "sync" THEN performSaveSync(s, out) ELSE performSaveAsync(s, p)

\* handleSaveOperation with the limit compared by > where the code has >=:
\* the save is forced one request late.
handleSaveOperation_late(s, fn, force, out, p) ==
  IF force THEN saveFn(s, fn, out, p)
  ELSE IF s.isSaving THEN armRetry(s, fn)
  ELSE IF ~config.autoSave THEN saveFn(s, fn, out, p)
  ELSE LET s1 == IF s.saveTimeout # "undefined"
                 THEN [clearTimeout(s) EXCEPT !.saveTimeoutCount = @ + 1]
                 ELSE s
       IN  IF s.saveTimeout # "undefined"
              /\ s1.saveTimeoutCount > MaxAutoSaveTimeouts
           THEN saveFn(s1, fn, out, p)
           ELSE armSaveTimeout(s1, fn)

\* handleSaveOperation(saveFn, force)
handleSaveOperation(s, fn, force, out, p) ==
  IF force THEN saveFn(s, fn, out, p)
  ELSE IF s.isSaving THEN armRetry(s, fn)
  ELSE IF ~config.autoSave THEN saveFn(s, fn, out, p)
  ELSE LET s1 == IF s.saveTimeout # "undefined"
                 THEN [clearTimeout(s) EXCEPT !.saveTimeoutCount = @ + 1]
                 ELSE s
       IN  IF s.saveTimeout # "undefined"
              /\ s1.saveTimeoutCount >= MaxAutoSaveTimeouts
           THEN saveFn(s1, fn, out, p)
           ELSE armSaveTimeout(s1, fn)

\* save(force)
save(s, force, out) == handleSaveOperation(s, "sync", force, out, "none")

\* saveAsync(force): an async function that does not await the save; the
\* promise it returns is fulfilled when its body returns.
saveAsync(s, force, p) ==
  LET s1 == handleSaveOperation(s, "async", force, "ok", p)
  IN  [s1 EXCEPT !.ops = [i \in DOMAIN s1.ops |->
                            IF s1.ops[i].p = "pending"
                            THEN [s1.ops[i] EXCEPT !.p = "resolved"]
                            ELSE s1.ops[i]]]

\* ================================================== src/unnamed/part_005
\* _cleanupSaveState()
_cleanupSaveState(s) ==
  [clearTimeout(s) EXCEPT !.isSaving = FALSE, !.saveTimeout = "undefined",
                          !.saveTimeoutCount = 0]

\* save(force): the synchronous performSave closure.  Nothing catches a
\* failure: it leaves the closure before _cleanupSaveState() is reached.
_performSaveSync(s0, out) ==
  LET s  == noteAttempt(s0)
      mk == (~s.isInitialCheckComplete) /\ out = "mkdirFail"
      s1 == [s EXCEPT !.isInitialCheckComplete = TRUE, !.isSaving = TRUE]
  IN  IF mk THEN [s EXCEPT !.threw = TRUE]
      ELSE IF out = "writeFail"
      THEN [noteEnd(noteBegin(s1), FALSE) EXCEPT !.threw = TRUE]
      ELSE _cleanupSaveState(
             noteEnd(noteBegin([s1 EXCEPT !.file = stringify(s1.data)]),
                     TRUE))

\* saveAsync(force): the asynchronous performSave closure up to its first await.
_performSaveAsync(s0, p) ==
  LET s == noteAttempt(s0)
  IN  IF ~s.isInitialCheckComplete
      THEN [s EXCEPT !.ops = Append(@, [pc |-> "check",
                                         content |-> stringify(0), p |-> p])]
      ELSE noteBegin([s EXCEPT !.isSaving = TRUE,
                               !.ops = Append(@, [pc |-> "write",
                                                  content |-> stringify(s.data),
                                                  p |-> p])])

\* this._saveQueue = this._saveQueue.then(async () => { await saveFunction(); })
\* A callback chained on a rejected promise is never called.
enqueue(s, fn, p) ==
  IF s.queueRejected THEN s
  ELSE [s EXCEPT !.saveQueue = Append(@, [fn |-> fn, p |-> p])]

\* The chained callback's promise rejects: so does every promise chained on it.
rejectQueue(s) == [s EXCEPT !.queueRejected = TRUE, !.saveQueue = <<>>]

\* _handleSaveOperation(saveFunction, force)
_handleSaveOperation(s, fn, force, p) ==
  IF s.isClosed THEN s
  ELSE IF force THEN enqueue(s, fn, p)
  ELSE IF s.isSaving THEN armRetry(s, fn)
  ELSE IF ~config.autoSave THEN enqueue(s, fn, p)
  ELSE LET s1 == IF s.saveTimeout # "undefined"
                 THEN [clearTimeout(s) EXCEPT !.saveTimeoutCount = @ + 1]
                 ELSE s
       IN  IF s.saveTimeout # "undefined"
              /\ s1.saveTimeoutCount >= MaxAutoSaveTimeouts
           THEN enqueue(s1, fn, p)
           ELSE armSaveTimeout(s1, fn)

\* save(force)
_save(s, force) == _handleSaveOperation(s, "sync", force, "none")

\* saveAsync(force): fulfilled as soon as the save has been handed over.
_saveAsync(s, force, p) ==
  LET s1 == _handleSaveOperation(s, "async", force, p)
  IN  [s1 EXCEPT !.saveQueue = [i \in DOMAIN s1.saveQueue |->
                                  IF s1.saveQueue[i].p = "pending"
                                  THEN [s1.saveQueue[i] EXCEPT !.p = "resolved"]
                                  ELSE s1.saveQueue[i]]]

\* _triggerAutoSave()
_triggerAutoSave(s) ==
  IF config.autoSave
  THEN IF config.sync THEN _save(s, FALSE) ELSE _saveAsync(s, FALSE, "none")
  ELSE s

\* close(), up to its await of this._saveQueue; on a Store already closed
\* it returns at once, and the promise it returns is resolved.
close(s) ==
  IF s.isClosed THEN [s EXCEPT !.closeResolved = TRUE]
  ELSE LET s1 == [s EXCEPT !.isClosed = TRUE, !.closePending = TRUE]
       IN  IF s1.saveTimeout # "undefined"
           THEN [clearTimeout(s1) EXCEPT !.saveTimeout = "undefined"]
           ELSE s1

\* close(), after its await of this._saveQueue: a rejected chain rejects
\* the promise of close(); otherwise the proxy cache is replaced and the
\* promise resolves.
closeSettled(s) ==
  IF s.queueRejected THEN [s EXCEPT !.closePending = FALSE]
  ELSE [s EXCEPT !.closePending = FALSE, !.closeResolved = TRUE,
                 !.cached = FALSE]

\* ============================================================ src/index.js
\* save(force): the inner closure `save`.  On success it deletes the three
\* fields; the debounce timer the saveTimeout field referred to is not
\* cleared, so if it is still armed it stays live.
saveClosure(s0, out) ==
  LET s  == noteAttempt(s0)
      mk == (~s.isInitialCheckComplete) /\ out = "mkdirFail"
      s1 == [s EXCEPT !.isInitialCheckComplete = TRUE, !.isSaving = TRUE]
  IN  IF mk THEN [s EXCEPT !.threw = TRUE]
      ELSE IF out = "writeFail"
      THEN [noteEnd(noteBegin(s1), FALSE) EXCEPT !.threw = TRUE]
      ELSE LET s2 == noteEnd(noteBegin([s1 EXCEPT !.file = stringify(s1.data)]),
                             TRUE)
           IN  [s2 EXCEPT !.isSaving = FALSE, !.saveTimeout = "undefined",
                          !.saveTimeoutCount = 0,
                          !.orphanTimers =
                             IF s2.saveTimeout = "armed" THEN @ + 1 ELSE @]

\* save(force)
js_save(s, force, out) ==
  IF force THEN saveClosure(s, out)
  ELSE IF s.isSaving THEN armRetry(s, "sync")
  ELSE IF ~config.autoSave THEN saveClosure(s, out)
  ELSE LET s1 == IF s.saveTimeout # "undefined"
                 THEN [clearTimeout(s) EXCEPT !.saveTimeoutCount = @ + 1]
                 ELSE s
       IN  IF s.saveTimeout # "undefined"
              /\ s1.saveTimeoutCount >= MaxAutoSaveTimeouts
           THEN saveClosure(s1, out)
           ELSE armSaveTimeout(s1, "sync")

\* ================================================== src/unnamed/part_000
\* save() of the first generation (lines 10-12): writes, nothing else.
v0_save(s0, out) ==
  LET s == noteAttempt(s0)
  IN  IF out = "ok"
      THEN noteEnd(noteBegin([s EXCEPT !.file = stringify(s.data)]), TRUE)
      ELSE [noteEnd(noteBegin(s), FALSE) EXCEPT !.threw = TRUE]

\* save() of the second generation (lines 176-196): returns at once while
\* saving is set; no timers.
v1_save(s0, out) ==
  LET s  == noteAttempt(s0)
      mk == (~s.isInitialCheckComplete) /\ out = "mkdirFail"
      s1 == [s EXCEPT !.isInitialCheckComplete = TRUE, !.isSaving = TRUE]
  IN  IF s0.isSaving THEN s0
      ELSE IF mk THEN [s EXCEPT !.threw = TRUE]
      ELSE IF out = "writeFail"
      THEN [noteEnd(noteBegin(s1), FALSE) EXCEPT !.threw = TRUE]
      ELSE [noteEnd(noteBegin([s1 EXCEPT !.file = stringify(s1.data)]), TRUE)
              EXCEPT !.isSaving = FALSE]

\* ================================================= the interception layer
Kinds == {"mapping", "sequence"}

Paths == {"top", "nested"}

\* The test the get trap makes before it wraps its result, for a container
\* of kind k: isObject of radash (plain objects only) in index.ts,
\* instanceof Object in part_005, typeof 'object' in index.js; the get trap
\* of part_000 returns its result as it is.
WrapsOnGet(k) ==
  CASE variant = "ts" -> k = "mapping"
    [] variant = "queue" -> TRUE
    [] variant = "js" -> TRUE
    [] OTHER -> FALSE

\* _createNestedProxies that does not look into the cache.
createNestedProxies_fresh(s) ==
  [s EXCEPT !.proxies = @ + 1, !.lastRead = <<s.proxies + 1, FALSE>>,
            !.cached = (variant = "queue")]

\* createNestedProxies(result, handler): a new Proxy on every call;
\* _createNestedProxies of part_005 returns the cached one if there is one.
createNestedProxies(s) ==
  IF variant = "queue" /\ s.cached
  THEN [s EXCEPT !.lastRead = <<s.proxies, TRUE>>]
  ELSE [s EXCEPT !.proxies = @ + 1, !.lastRead = <<s.proxies + 1, FALSE>>,
                 !.cached = (variant = "queue")]

\* What a read returns when it is the container itself, not a wrapper; a
\* wrapper is <<n, hit>>: the n-th made for the container, from the cache
\* or not.
Plain == <<0, FALSE>>

\* What the caller's onUpdate function does when it is called: it returns,
\* it throws, or it throws when the operation is a "set".
Hooks == {"quiet", "throws", "throwsOnSet"}

Throws(h, trap) == h = "throws" \/ (h = "throwsOnSet" /\ trap = "set")

\* One thing a trap does: "forward" (the Reflect call has returned), "hook"
\* (onUpdate is called) or "save" (save() or saveAsync() is called).
Event(trap, ev) == [trap |-> trap, ev |-> ev]

log(s, trap, ev) == [s EXCEPT !.events = Append(@, Event(trap, ev))]

\* const result = Reflect.<trap>(target, ...) of a trap that changes nothing
forward(s, trap) == IF s.threw THEN s ELSE log(s, trap, "forward")

\* const result = Reflect.<trap>(target, ...) of a trap that changes the
\* container
forwardMutation(s, trap) ==
  IF s.threw THEN s ELSE log([s EXCEPT !.data = @ + 1], trap, "forward")

\* this.config.onUpdate?.(trap, result): nothing catches what it throws.
onUpdate(s, trap) ==
  IF s.threw THEN s
  ELSE [log(s, trap, "hook") EXCEPT !.lastUpdate = trap,
                                    !.threw = Throws(s.hook, trap)]

\* The end of every mutating trap: if (autoSave) save() or saveAsync().
triggerAutoSave(s, trap, out) ==
  IF s.threw \/ ~config.autoSave THEN s
  ELSE LET s0 == log(s, trap, "save")
       IN  CASE variant = "ts" ->
                  IF config.sync THEN save(s0, FALSE, out)
                  ELSE saveAsync(s0, FALSE, "none")
             [] variant = "queue" -> _triggerAutoSave(s0)
             [] variant = "js" -> js_save(s0, FALSE, out)
             [] variant = "v1" -> v1_save(s0, out)

\* The get trap, reading the nested container from the wrapped root.
get(s) ==
  LET s1 == onUpdate(forward(s, "get"), "get")
  IN  IF s1.threw THEN s1
      ELSE IF WrapsOnGet(s.nested) THEN createNestedProxies(s1)
      ELSE [s1 EXCEPT !.lastRead = Plain]

\* The expression store.data.a
read(s) ==
  LET s0 == [s EXCEPT !.events = <<>>]
  IN  IF s0.wrapped THEN get(s0)
      ELSE [s0 EXCEPT !.lastUpdate = "none", !.lastRead = Plain]

\* A trap without a save request that requests one all the same.
quietTrap_saving(s, trap) ==
  triggerAutoSave(onUpdate(forward(s, trap), trap), trap, "ok")

\* The traps without a save: has, ownKeys, getOwnPropertyDescriptor,
\* preventExtensions, isExtensible, getPrototypeOf.
quietTrap(s, trap) == onUpdate(forward(s, trap), trap)

\* The defineProperty trap: Reflect.defineProperty, onUpdate, the automatic
\* save.
definePropertyTrap(s, out) ==
  triggerAutoSave(onUpdate(forwardMutation(s, "defineProperty"),
                           "defineProperty"),
                  "defineProperty", out)

\* The deleteProperty trap: Reflect.deleteProperty, onUpdate, the automatic
\* save.
deletePropertyTrap(s, out) ==
  triggerAutoSave(onUpdate(forwardMutation(s, "deleteProperty"),
                           "deleteProperty"),
                  "deleteProperty", out)

\* Reflect.set(target, property, value, receiver) with the wrapper as
\* receiver: the property of the target is an ordinary data property (or is
\* absent), so the assignment is made through the receiver, by its
\* [[GetOwnProperty]] and [[DefineOwnProperty]]: the wrapper's
\* getOwnPropertyDescriptor trap, then its defineProperty trap.
ReflectSet(s, out) ==
  definePropertyTrap(quietTrap(s, "getOwnPropertyDescriptor"), out)

\* The set trap, saving whether or not autoSave is set.
trapSet_always(s, out) ==
  LET s0 == [s EXCEPT !.data = @ + 1, !.lastUpdate = "set"]
  IN  CASE variant = "ts" -> save(s0, FALSE, out)
        [] variant = "queue" -> _saveAsync(s0, FALSE, "none")
        [] variant = "js" -> js_save(s0, FALSE, out)
        [] variant = "v1" -> v1_save(s0, out)

\* The set trap with the save requested before the hook is called.
trapSet_saveFirst(s, out) ==
  onUpdate(triggerAutoSave(forward(ReflectSet(s, out), "set"), "set", out),
           "set")

\* The set trap: Reflect.set, onUpdate("set", result), the automatic save.
trapSet(s, out) ==
  triggerAutoSave(onUpdate(forward(ReflectSet(s, out), "set"), "set"),
                  "set", out)

\* A property write on a plain (unwrapped) container: no trap runs.
plainSet(s) == [s EXCEPT !.data = @ + 1]

\* A write that runs the set trap whether or not the container is wrapped.
write_trapped(s, path, out) == trapSet(s, out)

\* The statements store.data.k = v ("top") and store.data.a.k = v ("nested").
write(s, path, out) ==
  LET s0 == [s EXCEPT !.events = <<>>]
  IN  IF path = "top"
      THEN IF s0.wrapped THEN trapSet(s0, out)
           ELSE plainSet([s0 EXCEPT !.lastUpdate = "none"])
      ELSE LET r == read(s0)
           IN  IF r.threw THEN r
               ELSE IF r.lastRead # Plain THEN trapSet(r, out)
               ELSE plainSet(r)

\* The statement store.data = newTree: data is an ordinary public field.
assignRoot(s) ==
  [s EXCEPT !.data = @ + 1, !.wrapped = FALSE, !.lastUpdate = "none",
            !.proxies = 0, !.cached = FALSE, !.lastRead = NoData,
            !.events = <<>>]

\* A file whose content is not JSON.
Corrupt == <<"not json">>

\* Whether sjson.parse / JSON.parse returns for this content.
Parses(text) == Len(text) = 2

\* reload() that stores the decoded content as it is.
reload_plain(s) ==
  IF s.file = Absent THEN s
  ELSE [s EXCEPT !.data = parse(s.file), !.wrapped = FALSE,
                 !.proxies = 0, !.cached = FALSE, !.lastRead = NoData]

\* reload(): the root becomes the decoded file content, wrapped unless
\* noProxy; without a file nothing happens.
reload(s) ==
  IF s.file = Absent THEN s
  ELSE IF ~Parses(s.file)
  THEN [s EXCEPT !.threw = (variant = "queue" \/ config.throwErrors)]
  ELSE [s EXCEPT !.data = parse(s.file), !.wrapped = ~config.noProxy,
                 !.proxies = 0, !.cached = FALSE, !.lastRead = NoData]

\* ======================================================= the constructors
\* The root {} a Store starts from when there is nothing else.
EmptyMapping == 0

\* The constructor has returned a Store whose root is d.
constructed(s, d, w) == [s EXCEPT !.opened = "ok", !.data = d, !.wrapped = w]

\* index.ts, initializeData() that lets no error out of the constructor.
initializeData_lenient(s) ==
  IF s.file = Absent THEN constructed(s, EmptyMapping, ~config.noProxy)
  ELSE IF Parses(s.file) THEN constructed(s, parse(s.file), ~config.noProxy)
  ELSE constructed(s, EmptyMapping, FALSE)

\* index.ts, initializeData(): any error is caught; it is thrown again if
\* throwErrors, else the root is a plain {}.
initializeData(s) ==
  IF s.file = Absent THEN constructed(s, EmptyMapping, ~config.noProxy)
  ELSE IF Parses(s.file) THEN constructed(s, parse(s.file), ~config.noProxy)
  ELSE IF config.throwErrors THEN [s EXCEPT !.opened = "threw"]
  ELSE constructed(s, EmptyMapping, FALSE)

\* part_005, _initializeData(baseData): no try; without a file the root is
\* baseData, and new Proxy(undefined, ...) is a TypeError.
_initializeData(s) ==
  IF s.file # Absent
  THEN IF Parses(s.file) THEN constructed(s, parse(s.file), ~config.noProxy)
       ELSE [s EXCEPT !.opened = "threw"]
  ELSE IF s.baseData # NoData
  THEN constructed(s, s.baseData[1], ~config.noProxy)
  ELSE IF config.noProxy THEN [s EXCEPT !.opened = "noroot"]
  ELSE [s EXCEPT !.opened = "threw"]

\* index.js and the second class of part_000: config.target is the parsed
\* file or {}, then the caller's config (its target included) is assigned
\* over it.
js_constructor(s) ==
  IF s.file # Absent /\ ~Parses(s.file) THEN [s EXCEPT !.opened = "threw"]
  ELSE constructed(s, IF s.baseData # NoData THEN s.baseData[1]
                      ELSE IF s.file = Absent THEN EmptyMapping
                      ELSE parse(s.file),
                   ~config.noProxy)

\* The first class of part_000: JSON.parse(fs.readFileSync(filename)).
v0_constructor(s) ==
  IF s.file # Absent /\ Parses(s.file)
  THEN constructed(s, parse(s.file), FALSE)
  ELSE [s EXCEPT !.opened = "threw"]

\* new Veloce(...)
constructor(s) ==
  CASE variant = "ts" -> initializeData(s)
    [] variant = "queue" -> _initializeData(s)
    [] variant \in {"js", "v1"} -> js_constructor(s)
    [] variant = "v0" -> v0_constructor(s)

\* ================================================================ actions
\* The interception layer of a Store constructed in proxy mode on a path
\* where no file exists: the root is wrapped, nothing was read through it.
Constructed ==
  /\ opened = "ok"
  /\ baseData = <<0>>
  /\ wrapped = TRUE
  /\ nested = "mapping"
  /\ lastUpdate = "none"
  /\ proxies = 0
  /\ cached = FALSE
  /\ lastRead = NoData
  /\ closePending = FALSE
  /\ closeResolved = FALSE
  /\ events = <<>>
  /\ raised = FALSE
  /\ lastCall = "none"

Init ==
  /\ variant \in Variants
  /\ config \in [autoSave : BOOLEAN, sync : BOOLEAN, throwErrors : BOOLEAN,
                 noProxy : {FALSE}]
  /\ variant = "queue" => config.throwErrors
  /\ variant = "js" => config.throwErrors /\ config.sync
  /\ data = 0
  /\ file = Absent
  /\ isInitialCheckComplete = FALSE
  /\ isSaving = FALSE
  /\ saveTimeout = "undefined"
  /\ saveTimeoutFn = "sync"
  /\ saveTimeoutCount = 0
  /\ orphanTimers = 0
  /\ retryTimers = [k \in FnKinds |-> 0]
  /\ ops = <<>>
  /\ saveQueue = <<>>
  /\ queueRejected = FALSE
  /\ isClosed = FALSE
  /\ writeCount = 0
  /\ failed = FALSE
  /\ request = FALSE
  /\ timerFired = FALSE
  /\ Constructed


\* The state a caller's operation starts from; a save requested of an open
\* Store after a failed write is remembered until a save closure is entered.
Called(requests) ==
  [This EXCEPT !.request = @ \/ (requests /\ This.failed /\ ~This.isClosed)]

\* The set trap of the proxy: store.data.k = v
set(out) == trapSet([Called(config.autoSave) EXCEPT !.events = <<>>], out)

MutateStep(out) == data < MaxMutations /\ Commit(set(out))

Mutate == \E out \in Outcomes : MutateStep(out)

\* An explicit store.save(force)
SaveCall(force, out) ==
  LET s0 == Called(TRUE)
  IN  Commit(CASE variant = "ts" -> save(s0, force, out)
               [] variant = "queue" -> _save(s0, force)
               [] variant = "js" -> js_save(s0, force, out)
               [] variant = "v1" -> v1_save(s0, out)
               [] variant = "v0" -> v0_save(s0, out))

Save == \E force \in BOOLEAN, out \in Outcomes : SaveCall(force, out)

\* An explicit store.saveAsync(force)
SaveAsyncCall(force) ==
  /\ variant \in {"ts", "queue"}
  /\ Commit(IF variant = "ts" THEN saveAsync(Called(TRUE), force, "pending")
            ELSE _saveAsync(Called(TRUE), force, "pending"))

SaveAsync == \E force \in BOOLEAN : SaveAsyncCall(force)

\* The armed debounce timer fires and runs its callback.
TimerStep(out) ==
  /\ saveTimeout = "armed"
  /\ LET s0 == [This EXCEPT !.saveTimeout = "stale", !.timerFired = TRUE]
     IN  Commit(CASE variant = "ts" -> saveFn(s0, saveTimeoutFn, out, "none")
                  [] variant = "queue" -> enqueue(s0, saveTimeoutFn, "none")
                  [] variant = "js" -> saveClosure(s0, out))

TimerFire == \E out \in Outcomes : TimerStep(out)

\* A debounce timer that no field refers to fires; only index.js leaves
\* such timers behind.
OrphanStep(out) ==
  /\ orphanTimers > 0
  /\ variant = "js"
  /\ Commit(saveClosure([This EXCEPT !.orphanTimers = @ - 1,
                                      !.timerFired = TRUE], out))

OrphanFire == \E out \in Outcomes : OrphanStep(out)

\* A retry timer fires.
RetryStep(fn, out) ==
  /\ retryTimers[fn] > 0
  /\ LET s0 == [This EXCEPT !.retryTimers[fn] = @ - 1]
     IN  Commit(CASE variant = "ts" ->
                       handleSaveOperation(s0, fn, FALSE, out, "none")
                  [] variant = "queue" ->
                       _handleSaveOperation(s0, fn, FALSE, "none")
                  [] variant = "js" -> saveClosure(s0, out))

RetryFire == \E fn \in FnKinds, out \in Outcomes : RetryStep(fn, out)

\* The next callback chained on _saveQueue runs (part_005 only): the
\* callback before it has settled, and the chain is not rejected.
QueueStep(out) ==
  /\ variant = "queue"
  /\ saveQueue # <<>>
  /\ ops = <<>>
  /\ LET e  == Head(saveQueue)
         s0 == [This EXCEPT !.saveQueue = Tail(@)]
         s1 == IF e.fn = "sync" THEN _performSaveSync(s0, out)
               ELSE _performSaveAsync(s0, e.p)
     IN  Commit(IF s1.threw THEN rejectQueue(s1) ELSE s1)

QueueStart == \E out \in Outcomes : QueueStep(out)

\* An async performSave that resumes after the directory check and writes
\* the text it held when it suspended, without serializing the root again.
CheckStep_stale(i, ok) ==
  /\ i \in DOMAIN ops
  /\ ops[i].pc = "check"
  /\ LET op == ops[i]
         s0 == [This EXCEPT !.ops = RemoveAt(@, i)]
         go == noteBegin([s0 EXCEPT
                 !.isInitialCheckComplete = TRUE, !.isSaving = TRUE,
                 !.ops = Append(@, [op EXCEPT !.pc = "write"])])
     IN  Commit(IF ok THEN go
                ELSE IF variant = "ts" THEN cleanupSaveState(s0)
                ELSE rejectQueue(s0))

\* An async performSave resumes after the directory check (access/mkdir).
CheckStep(i, ok) ==
  /\ i \in DOMAIN ops
  /\ ops[i].pc = "check"
  /\ LET op == ops[i]
         s0 == [This EXCEPT !.ops = RemoveAt(@, i)]
         go == noteBegin([s0 EXCEPT
                 !.isInitialCheckComplete = TRUE, !.isSaving = TRUE,
                 !.ops = Append(@, [op EXCEPT !.pc = "write",
                                             !.content = stringify(s0.data)])])
     IN  Commit(IF ok THEN go
                ELSE IF variant = "ts" THEN cleanupSaveState(s0)
                ELSE rejectQueue(s0))

CheckDone == \E i \in DOMAIN ops, ok \in BOOLEAN : CheckStep(i, ok)

\* fs.promises.writeFile completes, and the async performSave with it.
WriteStep(i, ok) ==
  /\ i \in DOMAIN ops
  /\ ops[i].pc = "write"
  /\ LET s0 == noteEnd([This EXCEPT !.ops = RemoveAt(@, i)], ok)
         s1 == IF ok THEN [s0 EXCEPT !.file = ops[i].content] ELSE s0
     IN  Commit(IF variant = "ts" THEN cleanupSaveState(s1)
                ELSE IF ok THEN _cleanupSaveState(s1)
                ELSE rejectQueue(s1))

WriteDone == \E i \in DOMAIN ops, ok \in BOOLEAN : WriteStep(i, ok)

\* store.close() (part_005 only)
Close == variant = "queue" /\ Commit(close(This))

\* The chain close() awaits has settled: close() resumes.
CloseDone ==
  /\ variant = "queue"
  /\ closePending
  /\ saveQueue = <<>>
  /\ ops = <<>>
  /\ Commit(closeSettled(This))

Next ==
  \/ Mutate
  \/ Save
  \/ SaveAsync
  \/ TimerFire
  \/ OrphanFire
  \/ RetryFire
  \/ QueueStart
  \/ CheckDone
  \/ WriteDone
  \/ Close
  \/ CloseDone

Spec == Init /\ [][Next]_vars

\* Timers fire once due, the event loop runs chained callbacks, and every
\* filesystem call returns.
Fairness ==
  /\ WF_vars(TimerFire)
  /\ WF_vars(OrphanFire)
  /\ WF_vars(RetryFire)
  /\ WF_vars(QueueStart)
  /\ WF_vars(CheckDone)
  /\ WF_vars(WriteDone)
  /\ WF_vars(CloseDone)

FairSpec == Spec /\ Fairness

\* ------------------------------------- every filesystem call succeeds
MutateOk == MutateStep("ok")

SaveOk == \E force \in BOOLEAN : SaveCall(force, "ok")

TimerFireOk == TimerStep("ok")

OrphanFireOk == OrphanStep("ok")

RetryFireOk == \E fn \in FnKinds : RetryStep(fn, "ok")

QueueStartOk == QueueStep("ok")

CheckDoneOk == \E i \in DOMAIN ops : CheckStep(i, TRUE)

WriteDoneOk == \E i \in DOMAIN ops : WriteStep(i, TRUE)

NextOk ==
  \/ MutateOk
  \/ SaveOk
  \/ SaveAsync
  \/ TimerFireOk
  \/ OrphanFireOk
  \/ RetryFireOk
  \/ QueueStartOk
  \/ CheckDoneOk
  \/ WriteDoneOk

SpecOk == Init /\ [][NextOk]_vars

\* ------------------------------------------------ a burst of mutations
\* Nothing is pending: no timer is live, no save is suspended or queued.
Quiet ==
  /\ saveTimeout # "armed"
  /\ orphanTimers = 0
  /\ \A k \in FnKinds : retryTimers[k] = 0
  /\ ops = <<>>
  /\ saveQueue = <<>>

\* Idle: nothing is pending and the scheduler's fields are clear.
Idle == Quiet /\ ~isSaving /\ saveTimeout = "undefined" /\ saveTimeoutCount = 0

\* An idle Store with autoSave on: freshly constructed, or after a save.
InitBurst ==
  /\ variant \in Variants
  /\ config \in [autoSave : {TRUE}, sync : BOOLEAN, throwErrors : BOOLEAN,
                 noProxy : {FALSE}]
  /\ variant = "queue" => config.throwErrors
  /\ variant = "js" => config.throwErrors /\ config.sync
  /\ data = 0
  /\ isInitialCheckComplete \in BOOLEAN
  /\ file = (IF isInitialCheckComplete THEN stringify(0) ELSE Absent)
  /\ isSaving = FALSE
  /\ saveTimeout = "undefined"
  /\ saveTimeoutFn = "sync"
  /\ saveTimeoutCount = 0
  /\ orphanTimers = 0
  /\ retryTimers = [k \in FnKinds |-> 0]
  /\ ops = <<>>
  /\ saveQueue = <<>>
  /\ queueRejected = FALSE
  /\ isClosed = FALSE
  /\ writeCount = 0
  /\ failed = FALSE
  /\ request = FALSE
  /\ timerFired = FALSE
  /\ Constructed

\* Mutations less than autoSaveDelay apart: the next one arrives before a
\* debounce timer has had the time to fire.
BurstMutate ==
  /\ data <= MaxAutoSaveTimeouts
  /\ ~timerFired
  /\ Commit(set("ok"))

NextBurst ==
  \/ BurstMutate
  \/ TimerFireOk
  \/ QueueStartOk
  \/ CheckDoneOk
  \/ WriteDoneOk

SpecBurst == InitBurst /\ [][NextBurst]_vars

\* ------------------------------------------- operations on store.data
\* Reading the nested container: store.data.a
DataRead == Commit(read(This))

\* store.data.k = v and store.data.a.k = v
DataWriteStep(path, out) ==
  /\ data < MaxMutations
  /\ Commit(write(Called(config.autoSave /\ wrapped), path, out))

DataWrite == \E path \in Paths : DataWriteStep(path, "ok")

\* store.data = newTree
DataAssign == data < MaxMutations /\ Commit(assignRoot(This))

\* store.reload()
Reload == variant \in {"ts", "queue"} /\ Commit(reload(This))

\* A constructed Store of any generation that has an interception layer,
\* over a file that is absent or holds an earlier root.
InitTree ==
  /\ variant \in Generations \ {"v0"}
  /\ config \in [autoSave : BOOLEAN, sync : BOOLEAN, throwErrors : {TRUE},
                 noProxy : BOOLEAN]
  /\ variant \in {"js", "v1"} => config.sync
  /\ data = 0
  /\ isInitialCheckComplete \in BOOLEAN
  /\ file = (IF isInitialCheckComplete THEN stringify(0) ELSE Absent)
  /\ isSaving = FALSE
  /\ saveTimeout = "undefined"
  /\ saveTimeoutFn = "sync"
  /\ saveTimeoutCount = 0
  /\ orphanTimers = 0
  /\ retryTimers = [k \in FnKinds |-> 0]
  /\ ops = <<>>
  /\ saveQueue = <<>>
  /\ queueRejected = FALSE
  /\ isClosed = FALSE
  /\ writeCount = 0
  /\ failed = FALSE
  /\ request = FALSE
  /\ timerFired = FALSE
  /\ opened = "ok"
  /\ baseData = <<0>>
  /\ wrapped = ~config.noProxy
  /\ nested \in Kinds
  /\ lastUpdate = "none"
  /\ proxies = 0
  /\ cached = FALSE
  /\ lastRead = NoData
  /\ closePending = FALSE
  /\ closeResolved = FALSE
  /\ events = <<>>
  /\ raised = FALSE
  /\ lastCall = "none"

NextTree ==
  \/ DataRead
  \/ DataWrite
  \/ DataAssign
  \/ Reload
  \/ SaveOk
  \/ TimerFireOk
  \/ OrphanFireOk
  \/ RetryFireOk
  \/ QueueStartOk
  \/ CheckDoneOk
  \/ WriteDoneOk
  \/ Close
  \/ CloseDone

SpecTree == InitTree /\ [][NextTree]_vars

\* ------------------------------------------------------- noProxy mode
\* A Store constructed with noProxy: store.data is the plain root.
InitDirect ==
  /\ variant \in Generations \ {"v0"}
  /\ config \in [autoSave : BOOLEAN, sync : BOOLEAN, throwErrors : {TRUE},
                 noProxy : {TRUE}]
  /\ variant \in {"js", "v1"} => config.sync
  /\ data = 0
  /\ isInitialCheckComplete \in BOOLEAN
  /\ file = (IF isInitialCheckComplete THEN stringify(0) ELSE Absent)
  /\ isSaving = FALSE
  /\ saveTimeout = "undefined"
  /\ saveTimeoutFn = "sync"
  /\ saveTimeoutCount = 0
  /\ orphanTimers = 0
  /\ retryTimers = [k \in FnKinds |-> 0]
  /\ ops = <<>>
  /\ saveQueue = <<>>
  /\ queueRejected = FALSE
  /\ isClosed = FALSE
  /\ writeCount = 0
  /\ failed = FALSE
  /\ request = FALSE
  /\ timerFired = FALSE
  /\ opened = "ok"
  /\ baseData = <<0>>
  /\ wrapped = FALSE
  /\ nested \in Kinds
  /\ lastUpdate = "none"
  /\ proxies = 0
  /\ cached = FALSE
  /\ lastRead = NoData
  /\ closePending = FALSE
  /\ closeResolved = FALSE
  /\ events = <<>>
  /\ raised = FALSE
  /\ lastCall = "none"

\* The one explicit save(): called of a Store on which nothing is pending
\* and nothing has been written.  save() is synchronous in every
\* generation, so no asynchronous write is ever in flight here.
DirectSave == Quiet /\ writeCount = 0 /\ SaveOk

NextDirect ==
  \/ DataRead
  \/ DataWrite
  \/ DataAssign
  \/ DirectSave
  \/ TimerFireOk
  \/ QueueStartOk

SpecDirect == InitDirect /\ [][NextDirect]_vars

\* ------------------------------------------------------ opening a Store
\* new Veloce(...) on a path where there is no file, a file that is not
\* JSON, or a file holding an earlier root.
InitOpen ==
  /\ variant \in Generations
  /\ config \in [autoSave : BOOLEAN, sync : {TRUE}, throwErrors : BOOLEAN,
                 noProxy : BOOLEAN]
  /\ variant # "ts" => config.throwErrors
  /\ variant = "v0" => ~config.autoSave /\ config.noProxy
  /\ file \in {Absent, Corrupt, stringify(MaxMutations)}
  /\ baseData \in {NoData, <<1>>}
  /\ variant \in {"ts", "v0"} => baseData = NoData
  /\ opened = "new"
  /\ data = EmptyMapping
  /\ wrapped = FALSE
  /\ isInitialCheckComplete = FALSE
  /\ isSaving = FALSE
  /\ saveTimeout = "undefined"
  /\ saveTimeoutFn = "sync"
  /\ saveTimeoutCount = 0
  /\ orphanTimers = 0
  /\ retryTimers = [k \in FnKinds |-> 0]
  /\ ops = <<>>
  /\ saveQueue = <<>>
  /\ queueRejected = FALSE
  /\ isClosed = FALSE
  /\ writeCount = 0
  /\ failed = FALSE
  /\ request = FALSE
  /\ timerFired = FALSE
  /\ nested = "mapping"
  /\ lastUpdate = "none"
  /\ proxies = 0
  /\ cached = FALSE
  /\ lastRead = NoData
  /\ closePending = FALSE
  /\ closeResolved = FALSE
  /\ events = <<>>
  /\ raised = FALSE
  /\ lastCall = "none"

Open == opened = "new" /\ Commit(constructor(This))

OpenedWrite == opened = "ok" /\ DataWrite

OpenedSave == opened = "ok" /\ SaveOk

NextOpen ==
  \/ Open
  \/ OpenedWrite
  \/ OpenedSave
  \/ TimerFireOk
  \/ QueueStartOk

SpecOpen == InitOpen /\ [][NextOpen]_vars

\* ------------------------------------------------ traps and the hook
\* The traps that request no save.
QuietTraps == {"has", "ownKeys", "getOwnPropertyDescriptor",
               "preventExtensions", "isExtensible", "getPrototypeOf"}

\* The caller's operation ends: what was thrown and not caught reaches it.
returned(s) == [s EXCEPT !.raised = s.threw]

\* The state a caller's operation on the wrapped root starts from, with an
\* onUpdate function that behaves as h.
Hooked(h) == [Called(config.autoSave) EXCEPT !.hook = h, !.events = <<>>]

\* store.data.k = v on the wrapped root
TrapWriteStep(h) ==
  /\ wrapped
  /\ data < MaxMutations
  /\ Commit(returned(trapSet(Hooked(h), "ok")))

TrapWrite == \E h \in Hooks : TrapWriteStep(h)

\* delete store.data.k on the wrapped root
TrapDeleteStep(h) ==
  /\ wrapped
  /\ data < MaxMutations
  /\ Commit(returned(deletePropertyTrap(Hooked(h), "ok")))

TrapDelete == \E h \in Hooks : TrapDeleteStep(h)

\* 'k' in store.data, Object.keys(store.data), Object.isExtensible(...), ...
TrapQuietStep(trap, h) ==
  /\ wrapped
  /\ Commit(returned(quietTrap([This EXCEPT !.hook = h, !.events = <<>>],
                               trap)))

TrapQuiet == \E trap \in QuietTraps, h \in Hooks : TrapQuietStep(trap, h)

\* store.data.a, with an onUpdate function that returns
TrapRead == wrapped /\ Commit(returned(read(This)))

\* A Store in proxy mode, of any generation that has an interception layer.
InitHook ==
  /\ variant \in Generations \ {"v0"}
  /\ config \in [autoSave : BOOLEAN, sync : BOOLEAN, throwErrors : {TRUE},
                 noProxy : {FALSE}]
  /\ variant \in {"js", "v1"} => config.sync
  /\ data = 0
  /\ isInitialCheckComplete \in BOOLEAN
  /\ file = (IF isInitialCheckComplete THEN stringify(0) ELSE Absent)
  /\ isSaving = FALSE
  /\ saveTimeout = "undefined"
  /\ saveTimeoutFn = "sync"
  /\ saveTimeoutCount = 0
  /\ orphanTimers = 0
  /\ retryTimers = [k \in FnKinds |-> 0]
  /\ ops = <<>>
  /\ saveQueue = <<>>
  /\ queueRejected = FALSE
  /\ isClosed = FALSE
  /\ writeCount = 0
  /\ failed = FALSE
  /\ request = FALSE
  /\ timerFired = FALSE
  /\ opened = "ok"
  /\ baseData = <<0>>
  /\ wrapped = TRUE
  /\ nested = "mapping"
  /\ lastUpdate = "none"
  /\ proxies = 0
  /\ cached = FALSE
  /\ lastRead = NoData
  /\ closePending = FALSE
  /\ closeResolved = FALSE
  /\ events = <<>>
  /\ raised = FALSE
  /\ lastCall = "none"

NextHook ==
  \/ TrapWrite
  \/ TrapDelete
  \/ TrapQuiet
  \/ TrapRead
  \/ TimerFireOk
  \/ RetryFireOk
  \/ QueueStartOk
  \/ CheckDoneOk
  \/ WriteDoneOk

SpecHook == InitHook /\ [][NextHook]_vars

\* ------------------------------------------------ the file operations
\* fs.unlinkSync(path) / fs.promises.unlink(path): ENOENT without a file.
unlink(s) ==
  IF s.file = Absent THEN [s EXCEPT !.threw = TRUE]
  ELSE [s EXCEPT !.file = Absent]

\* A catch that throws the error again whatever throwErrors is.
caught_rethrown(s) == s

\* index.ts: catch (error) { if (this.config.throwErrors) throw error }
\* The other generations have no catch.
caught(s) ==
  IF variant = "ts" /\ ~config.throwErrors THEN [s EXCEPT !.threw = FALSE]
  ELSE s

\* delete() that lets no error out.
delete_silent(s) == [unlink(s) EXCEPT !.threw = FALSE]

\* delete()
delete(s) == caught(unlink(s))

\* deleteAsync(): the promise is rejected where delete() throws.
deleteAsync(s) == caught(unlink(s))

\* reloadAsync(): fs.promises.access rejects without a file, and there is
\* no existsSync test before it; from there on as reload().
reloadAsync(s) ==
  IF s.file = Absent THEN caught([s EXCEPT !.threw = TRUE])
  ELSE reload(s)

\* A method of the Store returns to its caller, or throws.
called(s, name) ==
  [s EXCEPT !.raised = s.threw,
            !.lastCall = IF name = "save(true)"
                            /\ s.lastCall \in {"save(true)", "save(true) again"}
                         THEN "save(true) again" ELSE name]

\* store.save(force)
FileSaveStep(force, out) ==
  LET s0 == Called(TRUE)
  IN  Commit(called(CASE variant = "ts" -> save(s0, force, out)
                      [] variant = "queue" -> _save(s0, force)
                      [] variant = "js" -> js_save(s0, force, out)
                      [] variant = "v1" -> v1_save(s0, out),
                    IF force THEN "save(true)" ELSE "save"))

FileSave == \E force \in BOOLEAN, out \in Outcomes : FileSaveStep(force, out)

\* store.saveAsync(force)
FileSaveAsyncStep(force) ==
  /\ variant \in {"ts", "queue"}
  /\ Commit(called(IF variant = "ts"
                   THEN saveAsync(Called(TRUE), force, "pending")
                   ELSE _saveAsync(Called(TRUE), force, "pending"),
                   "saveAsync"))

FileSaveAsync == \E force \in BOOLEAN : FileSaveAsyncStep(force)

\* store.delete()
FileDelete == Commit(called(delete(This), "delete"))

\* store.deleteAsync()
FileDeleteAsync ==
  /\ variant \in {"ts", "queue"}
  /\ Commit(called(deleteAsync(This), "deleteAsync"))

\* store.reload()
FileReload ==
  /\ variant \in {"ts", "queue"}
  /\ Commit(called(reload(This), "reload"))

\* store.reloadAsync()
FileReloadAsync ==
  /\ variant \in {"ts", "queue"}
  /\ Commit(called(reloadAsync(This), "reloadAsync"))

\* store.data.k = v
FileWriteStep(out) ==
  /\ data < MaxMutations
  /\ Commit(called(set(out), "set"))

FileWrite == \E out \in Outcomes : FileWriteStep(out)

\* An open Store of a generation with delete(), autoSave off; the backing
\* file may have been removed or overwritten since the Store was opened.
InitFile ==
  /\ variant \in Generations \ {"v0"}
  /\ config \in [autoSave : {FALSE}, sync : {TRUE}, throwErrors : BOOLEAN,
                 noProxy : {FALSE}]
  /\ variant # "ts" => config.throwErrors
  /\ data = 0
  /\ isInitialCheckComplete \in BOOLEAN
  /\ file \in {Absent, stringify(0), Corrupt}
  /\ isSaving = FALSE
  /\ saveTimeout = "undefined"
  /\ saveTimeoutFn = "sync"
  /\ saveTimeoutCount = 0
  /\ orphanTimers = 0
  /\ retryTimers = [k \in FnKinds |-> 0]
  /\ ops = <<>>
  /\ saveQueue = <<>>
  /\ queueRejected = FALSE
  /\ isClosed = FALSE
  /\ writeCount = 0
  /\ failed = FALSE
  /\ request = FALSE
  /\ timerFired = FALSE
  /\ opened = "ok"
  /\ baseData = <<0>>
  /\ wrapped = TRUE
  /\ nested = "mapping"
  /\ lastUpdate = "none"
  /\ proxies = 0
  /\ cached = FALSE
  /\ lastRead = NoData
  /\ closePending = FALSE
  /\ closeResolved = FALSE
  /\ events = <<>>
  /\ raised = FALSE
  /\ lastCall = "none"

NextFile ==
  \/ FileSave
  \/ FileSaveAsync
  \/ FileDelete
  \/ FileDeleteAsync
  \/ FileReload
  \/ FileReloadAsync
  \/ FileWrite
  \/ RetryFire
  \/ QueueStart
  \/ CheckDone
  \/ WriteDone

SpecFile == InitFile /\ [][NextFile]_vars

\* ------------------------------------------------ the codec, token by token
\* A root value as the path through it: "[" opens a sequence, "{" and a key
\* open a mapping, and the path ends in a scalar, an empty container, or
\* Back: a reference to the root container itself (a cycle).
MaxDepth == 2

Scalars == {"null", "true", "0", "'s'"}

Leaves == Scalars \cup {"{}", "[]"}

Keys == {"k", "__proto__", "constructor", "prototype"}

Back == "~"

RECURSIVE Inner(_)
Inner(n) ==
  IF n = 0 THEN {<<l>> : l \in Leaves \cup {Back}}
  ELSE LET in == Inner(n - 1)
       IN  in \cup {<<"[">> \o v : v \in in}
              \cup {<<"{", k>> \o v : k \in Keys, v \in in}

Roots == Inner(MaxDepth) \ {<<Back>>}

Cyclic(v) == v[Len(v)] = Back

\* typeof value === "object" && value !== null: what new Proxy accepts.
IsContainer(v) == Head(v) \in {"[", "{", "[]", "{}"}

\* JSON.stringify(value, replacer): the text, with what the replacer gives
\* for a value that is met again inside itself.
RECURSIVE JSONstringify(_, _)
JSONstringify(v, circular) ==
  IF Head(v) = "[" THEN <<"[">> \o JSONstringify(Tail(v), circular) \o <<"]">>
  ELSE IF Head(v) = "{"
  THEN <<"{", v[2], ":">> \o JSONstringify(Tail(Tail(v)), circular) \o <<"}">>
  ELSE IF Head(v) = Back THEN <<circular>>
  ELSE v

\* What json-stringify-safe writes in place of the root met again.
CircularMarker == "'[Circular ~]'"

\* Whether a text is JSON.
RECURSIVE IsJSON(_)
IsJSON(t) ==
  \/ Len(t) = 1 /\ t[1] \in Leaves \cup {CircularMarker}
  \/ /\ Len(t) >= 3
     /\ t[1] = "[" /\ t[Len(t)] = "]"
     /\ IsJSON(SubSeq(t, 2, Len(t) - 1))
  \/ /\ Len(t) >= 5
     /\ t[1] = "{" /\ t[3] = ":" /\ t[Len(t)] = "}"
     /\ IsJSON(SubSeq(t, 4, Len(t) - 1))

\* JSON.parse(text) of a text that is JSON.
RECURSIVE JSONparse(_)
JSONparse(t) ==
  IF Len(t) = 1 THEN t
  ELSE IF t[1] = "[" THEN <<"[">> \o JSONparse(SubSeq(t, 2, Len(t) - 1))
  ELSE <<"{", t[2]>> \o JSONparse(SubSeq(t, 4, Len(t) - 1))

\* secure-json-parse with its default actions: a __proto__ key, or a
\* constructor key whose value has a prototype key, is a SyntaxError.
Forbidden(v) ==
  \E i \in 1..(Len(v) - 1) :
    /\ v[i] = "{"
    /\ \/ v[i + 1] = "__proto__"
       \/ /\ v[i + 1] = "constructor"
          /\ i + 3 <= Len(v)
          /\ v[i + 2] = "{"
          /\ v[i + 3] = "prototype"

\* The outcome of a call that returns a value or throws.
Returns(x) == [ok |-> TRUE, value |-> x]

Thrown == [ok |-> FALSE, value |-> <<>>]

\* The walk of the serializer meets the very same object again: the root is
\* not wrapped, or wrappers come from part_005's cache.  In index.ts every
\* read through a wrapper makes a new wrapper, which is never the same.
SameObjectMet(s) == ~s.wrapped \/ variant = "queue"

\* The text performSave hands to writeFileSync: json-stringify-safe in
\* index.ts and part_005, JSON.stringify in index.js and part_000.
writtenText(s) ==
  IF ~Cyclic(s.data) THEN Returns(JSONstringify(s.data, CircularMarker))
  ELSE IF variant \in {"ts", "queue"} /\ SameObjectMet(s)
  THEN Returns(JSONstringify(s.data, CircularMarker))
  ELSE Thrown

\* The root reload() and the constructor make of the file: the parsed text
\* (sjson.parse in index.ts and part_005, JSON.parse in index.js and
\* part_000), handed to new Proxy unless noProxy; new Proxy of a scalar is a
\* TypeError.
loadedRoot(s) ==
  IF ~IsJSON(s.file) THEN Thrown
  ELSE LET v == JSONparse(s.file)
       IN  IF variant \in {"ts", "queue"} /\ Forbidden(v) THEN Thrown
           ELSE IF ~config.noProxy /\ ~IsContainer(v) THEN Thrown
           ELSE Returns(v)

\* store.save(true), with the text spelled out.
CodecSave ==
  /\ opened = "ok"
  /\ LET r == writtenText(This)
     IN  Commit(called(IF r.ok
                       THEN noteBegin([This EXCEPT
                                         !.file = r.value,
                                         !.isInitialCheckComplete = TRUE])
                       ELSE [This EXCEPT !.threw = TRUE,
                                         !.isSaving = (variant # "ts")],
                       "save(true)"))

\* store.reload()
CodecReload ==
  /\ opened = "ok"
  /\ variant \in {"ts", "queue"}
  /\ file # Absent
  /\ LET l == loadedRoot(This)
     IN  Commit(called(IF l.ok
                       THEN [This EXCEPT !.data = l.value,
                                         !.wrapped = ~config.noProxy]
                       ELSE [This EXCEPT !.threw = TRUE],
                       "reload"))

\* new Veloce(path) on the path of the Store
CodecOpen ==
  /\ file # Absent
  /\ LET l == loadedRoot(This)
     IN  Commit(called(IF l.ok
                       THEN [This EXCEPT !.data = l.value,
                                         !.wrapped = ~config.noProxy,
                                         !.opened = "ok",
                                         !.isSaving = FALSE,
                                         !.isInitialCheckComplete = FALSE]
                       ELSE [This EXCEPT !.threw = TRUE, !.opened = "threw"],
                       "open"))

\* A Store with any root: a wrapped container, or a value assigned to
\* store.data; no file yet.
InitCodec ==
  /\ variant \in Generations \ {"v0"}
  /\ config \in [autoSave : {FALSE}, sync : {TRUE}, throwErrors : {TRUE},
                 noProxy : BOOLEAN]
  /\ data \in Roots
  /\ wrapped \in BOOLEAN
  /\ wrapped => ~config.noProxy /\ IsContainer(data)
  /\ file = Absent
  /\ isInitialCheckComplete = FALSE
  /\ isSaving = FALSE
  /\ saveTimeout = "undefined"
  /\ saveTimeoutFn = "sync"
  /\ saveTimeoutCount = 0
  /\ orphanTimers = 0
  /\ retryTimers = [k \in FnKinds |-> 0]
  /\ ops = <<>>
  /\ saveQueue = <<>>
  /\ queueRejected = FALSE
  /\ isClosed = FALSE
  /\ writeCount = 0
  /\ failed = FALSE
  /\ request = FALSE
  /\ timerFired = FALSE
  /\ opened = "ok"
  /\ baseData = NoData
  /\ nested = "mapping"
  /\ lastUpdate = "none"
  /\ proxies = 0
  /\ cached = FALSE
  /\ lastRead = NoData
  /\ closePending = FALSE
  /\ closeResolved = FALSE
  /\ events = <<>>
  /\ raised = FALSE
  /\ lastCall = "none"

NextCodec ==
  \/ CodecSave
  \/ CodecReload
  \/ CodecOpen

SpecCodec == InitCodec /\ [][NextCodec]_vars

\* ================================================================ claims
\* The physical writes in progress: suspended in fs.promises.writeFile.
Writing(o) == {i \in DOMAIN o : o[i].pc = "write"}

\* A step in which a physical write begins.
WriteBegins == writeCount' = writeCount + 1

\* A step in which a physical write ends: an asynchronous one returns, or a
\* synchronous one is made (it begins and ends inside the step).
WriteEnds ==
  \/ Cardinality(Writing(ops')) < Cardinality(Writing(ops))
  \/ WriteBegins /\ Cardinality(Writing(ops')) = Cardinality(Writing(ops))

\* C1: at no reachable state are two physical writes of the backing file
\* in progress at the same time.
C1_OneWriter == Cardinality(Writing(ops)) <= 1

\* C2: a forced save issued while a write is in flight does not begin its
\* own write before that write has completed (and each of the two forced
\* saves ends in one completed write).
C2_ForcedSaveWaits ==
  [][(SaveAsyncCall(TRUE) \/ \E out \in Outcomes : SaveCall(TRUE, out))
       /\ Writing(ops) # {}
     => ~WriteBegins]_vars

\* C3: with autoSave on and every write succeeding, once at least one
\* mutation was made and nothing is pending (no timer armed, no write in
\* flight or queued), the file holds the serialization of the current root.
C3_AutoSaved ==
  (config.autoSave /\ ~isClosed /\ data > 0 /\ Quiet) => file = stringify(data)

\* A save is under way: suspended in a filesystem call, or chained on the
\* save queue.
SavePending == ops # <<>> \/ saveQueue # <<>>

\* C4: from Idle, N mutations less than autoSaveDelay apart, with
\* N < maxAutoSaveTimeouts and none after them, make exactly one physical
\* write (none before a debounce timer fires, one once nothing is pending),
\* and the file then holds the root as it is after the Nth mutation.
C4_OneWritePerBurst ==
  (data >= 1 /\ data < MaxAutoSaveTimeouts) =>
    /\ writeCount <= 1
    /\ ~timerFired => writeCount = 0 /\ ~SavePending
    /\ (writeCount = 1 /\ Writing(ops) = {}) => file = stringify(data)
    /\ Quiet => writeCount = 1

\* C5: a save request that finds the debounce timer armed (and no save in
\* progress) cancels it and increments saveTimeoutCount; if the count has
\* then reached maxAutoSaveTimeouts a save is started at once and no timer is
\* armed, otherwise the timer is armed again and no save is started.  Hence
\* by the (maxAutoSaveTimeouts + 1)-th mutation of a burst a save has been
\* started with no debounce timer having fired.
C5_CoalesceLimit ==
  /\ (saveTimeout = "armed" /\ ~isSaving) =>
        LET r == triggerAutoSave(This, "set", "ok")
        IN  /\ r.orphanTimers = orphanTimers
            /\ IF saveTimeoutCount + 1 >= MaxAutoSaveTimeouts
               THEN /\ r.saveTimeout # "armed"
                    /\ \/ r.writeCount = writeCount + 1
                       \/ Len(r.ops) > Len(ops)
                       \/ Len(r.saveQueue) > Len(saveQueue)
               ELSE /\ r.saveTimeout = "armed"
                    /\ r.saveTimeoutCount = saveTimeoutCount + 1
                    /\ r.writeCount = writeCount
                    /\ r.ops = ops /\ r.saveQueue = saveQueue
  /\ (data = MaxAutoSaveTimeouts + 1 /\ ~timerFired) =>
        writeCount >= 1 \/ SavePending

C5_Witness ==
  /\ data = MaxAutoSaveTimeouts + 1
  /\ ~timerFired
  /\ saveTimeout # "armed"
  /\ writeCount >= 1
  /\ Writing(ops) = {} => file = stringify(data)

\* C6: when a physical write completes, successfully or not, the scheduler
\* is Idle: the saving flag is false, no debounce timer is armed and
\* saveTimeoutCount is 0.
C6_IdleAfterWrite ==
  [][WriteEnds => /\ ~isSaving'
                  /\ saveTimeout' # "armed"
                  /\ orphanTimers' = 0
                  /\ saveTimeoutCount' = 0]_vars

\* C7: one failed write does not wedge the Store (part_005 and index.js,
\* the generations without a guaranteed cleanup): a save requested of an
\* open Store after a write has failed eventually enters its save closure,
\* unless the Store is closed or the bound on physical writes is reached.
C7_NotWedged ==
  (variant \in {"queue", "js"} /\ request)
    ~> (~request \/ isClosed \/ writeCount = MaxWrites)

\* C8: when the write made for a saveAsync() call fails and errors are not
\* suppressed, the promise that call returned can still reject: it has not
\* been fulfilled already.
C8_FailureRejects ==
  [][\A i \in DOMAIN ops :
       WriteStep(i, FALSE) /\ config.throwErrors /\ ops[i].p # "none"
         => ops[i].p = "pending"]_vars

\* C9: the promise saveAsync(true) returns is not fulfilled while the save
\* it asked for is still suspended or queued.
C9_ResolvesAfterWrite ==
  [][SaveAsyncCall(TRUE) =>
       /\ Len(ops') > Len(ops) => ops'[Len(ops')].p = "pending"
       /\ Len(saveQueue') > Len(saveQueue)
            => saveQueue'[Len(saveQueue')].p = "pending"]_vars

\* C10: when a synchronous save(true) returns, with the filesystem doing
\* what it is asked, the file holds the serialization of the current root,
\* whatever the scheduler's state was.
C10_ForcedSyncSaves ==
  [][SaveCall(TRUE, "ok") => file' = stringify(data')]_vars

\* The configuration a Store has when the caller passes none.
DefaultConfig ==
  /\ config.autoSave
  /\ ~config.noProxy
  /\ config.throwErrors
  /\ config.sync = (variant = "js")

\* C11: on a Store with the default configuration, when save() (no
\* argument) returns, with the filesystem doing what it is asked, the file
\* holds the serialization of the current root.
C11_SaveSaves ==
  [][DefaultConfig /\ SaveCall(FALSE, "ok") => file' = stringify(data')]_vars

\* C12: with autoSave off, no operation on store.data (a read, a write at
\* either depth, an assignment of the root) arms a debounce or retry timer,
\* queues or starts a save, or writes the file.
C12_NoAutoSave ==
  [][~config.autoSave /\ (DataRead \/ DataWrite \/ DataAssign)
       => UNCHANGED <<saveTimeout, orphanTimers, retryTimers, ops, saveQueue,
                      writeCount, file, isSaving>>]_vars

\* The set trap has run on a Store with autoSave off and nothing is scheduled.
C12_Witness ==
  /\ ~config.autoSave
  /\ lastUpdate = "set"
  /\ data = MaxMutations
  /\ writeCount = 0
  /\ Quiet

\* C13: with noProxy, store.data is the plain root: reads and mutations fire
\* no onUpdate, arm no timer and write nothing; one explicit save() produces
\* exactly one write, no write before it and none after it.
C13_DirectMode ==
  [][/\ (DataRead \/ DataWrite \/ DataAssign)
          => /\ lastUpdate' = "none"
             /\ UNCHANGED <<saveTimeout, orphanTimers, retryTimers, ops,
                            saveQueue, writeCount, file, isSaving>>
     /\ DirectSave => (~Quiet' \/ writeCount' = 1)
     /\ (~Quiet /\ Quiet') => writeCount' = 1
     /\ writeCount' <= 1
     /\ orphanTimers' = 0
     /\ \A k \in FnKinds : retryTimers'[k] = 0]_vars

\* Mutations on the plain root, then the one save: one write, and the file
\* holds the root.
C13_Witness ==
  /\ config.noProxy
  /\ data = MaxMutations
  /\ lastUpdate = "none"
  /\ writeCount = 1
  /\ Quiet
  /\ file = stringify(MaxMutations)

\* C14: in proxy mode a write through store.data fires onUpdate("set"),
\* also after the root has been replaced by store.data = newTree: the value
\* read back from store.data is a wrapper.
C14_AssignedRootWrapped ==
  [][~config.noProxy /\ DataWriteStep("top", "ok")
       => wrapped /\ lastUpdate' = "set"]_vars

C16_AbsentFileOpens ==
  [][/\ Open /\ file = Absent
          => /\ opened' = "ok"
             /\ data' = (IF baseData = NoData THEN EmptyMapping
                         ELSE baseData[1])
     /\ (file = Absent /\ file' # Absent) => writeCount' = writeCount + 1]_vars

C18_ClosedIsFinal ==
  [][/\ isClosed' => saveTimeout' # "armed"
     /\ closeResolved' => Writing(ops') = {}
     /\ closeResolved => ~WriteBegins]_vars

\* C19: in proxy mode, on an open Store, a container read through the
\* wrapped root is itself wrapped: a write to one of its fields fires onUpdate("set") and, with
\* autoSave on, requests a save.
C19_NestedWritesIntercepted ==
  [][~config.noProxy /\ wrapped /\ ~isClosed /\ DataWriteStep("nested", "ok")
       => /\ lastRead' # Plain
          /\ lastUpdate' = "set"
          /\ config.autoSave => (~Quiet' \/ WriteBegins)]_vars

\* C20 (as stated): a container has at most one wrapper: every read of the
\* same nested container returns the identical wrapper.
C20_OneWrapper == proxies <= 1

\* C20 (amended): in part_005, until close() has resolved, a container has
\* at most one wrapper, and a read of a container that has been read before
\* returns that wrapper out of the cache.
C20_OneWrapperWhileOpen ==
  (variant = "queue" /\ ~closeResolved)
    => /\ proxies <= 1
       /\ (cached => proxies = 1)
       /\ (lastRead \notin {NoData, Plain} => lastRead[1] = 1)

\* The nested container has been read a second time and the read returned
\* the wrapper made by the first.
C20_Witness ==
  /\ variant = "queue"
  /\ ~closeResolved
  /\ lastRead = <<1, TRUE>>

\* The hook calls and the save requests among the events of an operation.
HookCalls(ev) == {i \in DOMAIN ev : ev[i].ev = "hook"}

SaveCalls(ev) == {i \in DOMAIN ev : ev[i].ev = "save"}

\* The place of an event inside its trap.
Rank(e) == CASE e.ev = "forward" -> 1 [] e.ev = "hook" -> 2 [] e.ev = "save" -> 3

C28_HookThrowsAfterApply ==
  [][(TrapWriteStep("throws") \/ TrapWriteStep("throwsOnSet")
        \/ TrapDeleteStep("throws"))
       => raised' /\ data' = data + 1]_vars

\* What a Store keeps about saving: the scheduler, the writes and the file.
scheduler == <<isSaving, saveTimeout, saveTimeoutFn, saveTimeoutCount,
               orphanTimers, retryTimers, ops, saveQueue, queueRejected,
               writeCount, failed, file>>

\* C29: has, ownKeys, getOwnPropertyDescriptor, preventExtensions,
\* isExtensible, getPrototypeOf and get call onUpdate and leave the data, the
\* scheduler and the file as they were.
C29_QuietTrapsDoNotSave ==
  [][(TrapQuiet \/ TrapRead)
       => /\ HookCalls(events') # {}
          /\ UNCHANGED <<scheduler, data>>]_vars

\* A membership test on a Store with autoSave on, after a mutation.
C29_Witness ==
  /\ config.autoSave
  /\ data > 0
  /\ events = <<Event("has", "forward"), Event("has", "hook")>>
  /\ ~raised

\* C30: one assignment through the wrapper calls onUpdate once, with 'set',
\* requests one save, and advances the coalesce count by at most one.
C30_OneHookOneRequest ==
  [][TrapWriteStep("quiet")
       => /\ Cardinality(HookCalls(events')) = 1
          /\ \A i \in HookCalls(events') : events'[i].trap = "set"
          /\ Cardinality(SaveCalls(events')) <= 1
          /\ saveTimeoutCount' <= saveTimeoutCount + 1]_vars

SameEnd(a, b) ==
  /\ a.data = b.data
  /\ a.wrapped = b.wrapped
  /\ a.file = b.file
  /\ a.threw = b.threw

\* C24: from any state of the Store and of the file, reload and reloadAsync
\* end alike, delete and deleteAsync end alike, and a forced save and a
\* forced saveAsync both succeed or both fail.
C24_SyncAsyncAgree ==
  variant \in {"ts", "queue"} =>
    /\ SameEnd(reload(This), reloadAsync(This))
    /\ SameEnd(delete(This), deleteAsync(This))
    /\ \A out \in Outcomes :
         IF variant = "ts"
         THEN save(This, TRUE, out).threw
                = saveAsync(This, TRUE, "pending").threw
         ELSE _save(This, TRUE).threw = _saveAsync(This, TRUE, "pending").threw

\* C26: in index.ts with throwErrors off no call of save, saveAsync, delete,
\* deleteAsync, reload or reloadAsync ends with an error raised and the
\* constructor opens a Store whatever the file holds; the step in which a
\* write fails leaves isSaving false, and a forced save after a failed write
\* writes the root.
C26_ErrorsSuppressed ==
  /\ [][(variant = "ts" /\ ~config.throwErrors)
          => /\ ~raised'
             /\ (failed' /\ ~failed) => ~isSaving']_vars
  /\ []((variant = "ts" /\ ~config.throwErrors)
          => /\ \A f \in {Absent, stringify(data), Corrupt} :
                  initializeData([This EXCEPT !.file = f]).opened = "ok"
             /\ failed => LET r == save(This, TRUE, "ok")
                          IN  /\ ~r.threw
                              /\ r.file = stringify(data)
                              /\ r.writeCount = writeCount + 1)

\* A write has failed without an error raised, and a forced save made after
\* it has written the root.
C26_Witness ==
  /\ variant = "ts"
  /\ ~config.throwErrors
  /\ failed
  /\ lastCall \in {"save(true)", "save(true) again"}
  /\ ~raised
  /\ ~isSaving
  /\ writeCount = 2
  /\ file = stringify(data)

\* What save(true) does once it runs: at once in index.ts and index.js; in
\* part_005 when its callback on the save queue runs.
forcedSave(s) ==
  CASE variant = "ts" -> save(s, TRUE, "ok")
    [] variant = "queue" -> _performSaveSync(s, "ok")
    [] variant = "js" -> js_save(s, TRUE, "ok")

C22_RoundTrip ==
  ~Cyclic(data) =>
    LET w == writtenText(This)
    IN  /\ w.ok
        /\ LET l == loadedRoot([This EXCEPT !.file = w.value])
           IN  l.ok /\ l.value = data

\* C25: a forced save of a cyclic root throws and writes nothing.
C25_CyclicSaveFails ==
  [][(CodecSave /\ Cyclic(data)) => raised' /\ file' = file]_vars

\* C33: in every reachable state the count of pushed-back debounce timers is
\* between 0 and the maximum.
C33_CountWithinCap ==
  saveTimeoutCount >= 0 /\ saveTimeoutCount <= MaxAutoSaveTimeouts

\* The debounce timers that can still fire: the one the saveTimeout field
\* refers to, and those no field refers to any more.
LiveDebounceTimers == orphanTimers + (IF saveTimeout = "armed" THEN 1 ELSE 0)

\* C38: at most one debounce timer is live in every reachable state.
C38_OneDebounceTimer == LiveDebounceTimers <= 1

\* The retry timers that are live.
LiveRetryTimers == retryTimers["sync"] + retryTimers["async"]

\* C32: while isSaving is true, a save request that is not forced, and a
\* retry timer that fires, start no write and run no save closure, and leave
\* a retry timer live: the request waits for the save in flight.
C32_RetryWhileSaving ==
  [][(isSaving /\ (\/ RetryFire
                   \/ \E out \in Outcomes : SaveCall(FALSE, out)
                   \/ SaveAsyncCall(FALSE)))
       => /\ writeCount' = writeCount
          /\ ops' = ops
          /\ saveQueue' = saveQueue
          /\ saveTimeout' = saveTimeout
          /\ LiveRetryTimers' >= 1]_vars

\* The saves that are suspended in the directory check.
ChecksInFlight == {i \in DOMAIN ops : ops[i].pc = "check"}

\* C34: at no time are two saves of a Store checking the directory, and once
\* a save has completed the check no save begins it again.
C34_DirectoryCheckedOnce ==
  /\ [](Cardinality(ChecksInFlight) <= 1)
  /\ [][isInitialCheckComplete
          => /\ isInitialCheckComplete'
             /\ Cardinality(ChecksInFlight') <= Cardinality(ChecksInFlight)]_vars

C36_HookThrowsNoSave ==
  [][(TrapWriteStep("throws") \/ TrapWriteStep("throwsOnSet")
        \/ TrapDeleteStep("throws"))
       => raised' /\ UNCHANGED scheduler]_vars

WritesInFlight == {i \in DOMAIN ops : ops[i].pc = "write"}

\* C31: a physical write serializes the root as it is when that write
\* begins, with every mutation made up to then: an asynchronous write
\* carries the text of the root of the step in which it starts, a
\* synchronous write leaves that text in the file unless it fails.
C31_WriteSerializesCurrentRoot ==
  [][writeCount' > writeCount
       => IF Cardinality(WritesInFlight') > Cardinality(WritesInFlight)
          THEN ops'[Len(ops')].pc = "write"
               /\ ops'[Len(ops')].content = stringify(data')
          ELSE file' \in {file, stringify(data')}]_vars

C31_Witness ==
  /\ isInitialCheckComplete
  /\ data > 0
  /\ \E i \in WritesInFlight : ops[i].content = stringify(data)

\* C37: once delete() or deleteAsync() has removed the file, no retry timer
\* and no queued save that was pending at that time brings the file back:
\* with no further call by the caller the file stays absent.
C37_DeletedStaysAbsent ==
  [][(lastCall \in {"delete", "deleteAsync"} /\ ~raised /\ file = Absent
        /\ (RetryFire \/ QueueStart))
       => file' = Absent]_vars

\* C39: the promise returned by close() resolves, also when a save queued
\* before it has failed: when close() leaves its await of the save chain,
\* its promise is resolved, not rejected.
C39_CloseResolves ==
  [][(closePending /\ ~closePending') => closeResolved']_vars

====
